---- MODULE Spec2Model ----
(***************************************************************************)
(* Shape-level model of src/inception/inception.py: the InceptionModel     *)
(* constructor (hyperparameter expansion, block and linear construction),   *)
(* InceptionBlock construction and forward, and the "same padding" 1-D      *)
(* convolution.  Tensors are modelled by their sizes <<batch, channels,     *)
(* length>>; an operation of the tensor library either yields a tensor of   *)
(* some size or raises.                                                     *)
(***************************************************************************)
EXTENDS Integers, Sequences, FiniteSets, TLC

VARIABLES
    pc,                  \* position in InceptionModel.__init__ / forward
    num_blocks,          \* argument num_blocks
    in_channels,         \* argument in_channels
    num_pred_classes,    \* argument num_pred_classes
    given,               \* the four scalar-or-list arguments as passed by the caller
    channels,            \* local channels (line 30)
    bottleneck_channels, \* local bottleneck_channels after line 31
    kernel_sizes,        \* local kernel_sizes after line 32
    use_residuals,       \* local use_residuals after lines 33-35
    blocks,              \* self.blocks, the InceptionBlocks built so far
    linear,              \* self.linear
    x,                   \* the tensor travelling through InceptionModel.forward
    passes,              \* what each InceptionBlock.forward call did, in call order
    call                 \* one Conv1dSamePadding.forward call on a free-standing layer

vars == <<pc, num_blocks, in_channels, num_pred_classes, given, channels,
          bottleneck_channels, kernel_sizes, use_residuals, blocks, linear,
          x, passes, call>>

-----------------------------------------------------------------------------
(* Bounds of the model. *)
MaxBlocks == 2      \* num_blocks ranges over 1..MaxBlocks and DeepBlocks;
                    \* list arguments have 0..MaxBlocks+1 entries
DeepBlocks == 6     \* one deeper stack
MaxBatch == 2
MaxLength == 6      \* input lengths 1..MaxLength
MaxChannels == 3    \* channel counts of the free-standing convolution
MaxKernel == 6      \* kernel lengths of the free-standing convolution
MaxStride == 2
MaxDilation == 2
MaxGroups == 2

Max(a, b) == IF a >= b THEN a ELSE b

CeilDiv(a, b) == (a + b - 1) \div b

-----------------------------------------------------------------------------
(* Tensors and the tensor library. *)

Tensor(size) == [ok |-> TRUE, size |-> size]

\* the outcome of a library call that raised
Raised == [ok |-> FALSE, size |-> <<>>]

\* F.pad(input, [left, right]): pads the last dimension
F_pad(input, pad) ==
    [input EXCEPT ![Len(input)] = @ + pad[1] + pad[2]]

\* F.conv1d on sizes: the input must have weight.size(1) * groups channels and
\* the padded input must be at least as long as the dilated kernel.
F_conv1d(input, weight, stride, padding, dilation, groups) ==
    LET padded == input[3] + 2 * padding
        kernel == dilation * (weight[3] - 1) + 1
    IN  IF input[2] # weight[2] * groups \/ padded < kernel
        THEN Raised
        ELSE Tensor(<<input[1], weight[1], (padded - kernel) \div stride + 1>>)

\* x + y with broadcasting: sizes agree in every dimension or one of them is 1
TensorAdd(a, b) ==
    IF \A d \in 1..3 : a[d] = b[d] \/ a[d] = 1 \/ b[d] = 1
    THEN Tensor([d \in 1..3 |-> Max(a[d], b[d])])
    ELSE Raised

-----------------------------------------------------------------------------
(* conv1d_same_padding, lines 110-126.  The result records the padding the  *)
(* call applied next to the convolution's outcome: left is the padding at   *)
(* the start of the sequence, right the padding at its end.                 *)

\* conv1d_same_padding with the odd unit of padding put at the start
conv1d_same_padding_padstart(input, weight, stride, dilation, groups) ==
    LET input_length == input[2]
        filter_length == weight[2]
        effective_filter_size_length == (filter_length - 1) * dilation + 1
        out_length == (input_length + stride - 1) \div stride
        padding_length ==
            Max(0, (out_length - 1) * stride + effective_filter_size_length - input_length)
        length_odd == (padding_length % 2 # 0)
        pad == IF length_odd THEN <<1, 0>> ELSE <<0, 0>>
    IN  [padding_length |-> padding_length,
         left |-> pad[1] + padding_length \div 2,
         right |-> pad[2] + padding_length \div 2,
         out |-> F_conv1d(F_pad(input, pad), weight, stride,
                          padding_length \div 2, dilation, groups)]

conv1d_same_padding(input, weight, stride, dilation, groups) ==
    LET input_length == input[2]       \* input.size(1)
        filter_length == weight[2]     \* weight.size(1)
        effective_filter_size_length == (filter_length - 1) * dilation + 1
        out_length == (input_length + stride - 1) \div stride
        padding_length ==
            Max(0, (out_length - 1) * stride + effective_filter_size_length - input_length)
        length_odd == (padding_length % 2 # 0)
        \* F.pad(input, [0, int(length_odd)]) when length_odd, no call otherwise
        pad == IF length_odd THEN <<0, 1>> ELSE <<0, 0>>
    IN  [padding_length |-> padding_length,
         left |-> pad[1] + padding_length \div 2,
         right |-> pad[2] + padding_length \div 2,
         out |-> F_conv1d(F_pad(input, pad), weight, stride,
                          padding_length \div 2, dilation, groups)]

\* Conv1dSamePadding(in_channels, out_channels, kernel_size, stride=..., bias=False):
\* an nn.Conv1d, whose weight has size [out_channels, in_channels // groups, kernel_size]
Conv1dSamePadding(in_ch, out_ch, kernel_size, stride, dilation, groups) ==
    [type |-> "conv",
     in_channels |-> in_ch, out_channels |-> out_ch, kernel_size |-> kernel_size,
     stride |-> stride, dilation |-> dilation, groups |-> groups,
     weight |-> <<out_ch, in_ch \div groups, kernel_size>>]

\* Conv1dSamePadding.forward, lines 105-107
Conv1dSamePadding_forward(layer, input) ==
    conv1d_same_padding(input, layer.weight, layer.stride, layer.dilation, layer.groups)

NoResult == [padding_length |-> 0, left |-> 0, right |-> 0, out |-> Raised]

NoCall == [input |-> <<>>, layer |-> Conv1dSamePadding(1, 1, 1, 1, 1, 1),
           done |-> FALSE, result |-> NoResult]

-----------------------------------------------------------------------------
(* Layers and nn.Sequential. *)

BatchNorm1d(num_features) == [type |-> "batchnorm", num_features |-> num_features]

ReLU == [type |-> "relu"]

\* calling one layer on a tensor of size input
Layer_forward(layer, input) ==
    CASE layer.type = "conv" -> Conv1dSamePadding_forward(layer, input).out
      [] layer.type = "batchnorm" ->
            IF input[2] = layer.num_features THEN Tensor(input) ELSE Raised
      [] layer.type = "relu" -> Tensor(input)

\* nn.Sequential(*layers)(input): each layer consumes the previous layer's output
RECURSIVE Sequential_forward(_, _)
Sequential_forward(layers, input) ==
    IF Len(layers) = 0 THEN Tensor(input)
    ELSE LET first == Layer_forward(Head(layers), input)
         IN  IF first.ok THEN Sequential_forward(Tail(layers), first.size)
             ELSE Raised

-----------------------------------------------------------------------------
(* InceptionBlock, lines 52-95.  An attribute that __init__ sets only under *)
(* a condition (bottleneck, residual) is a sequence of zero or one values.  *)

\* list of the three kernel lengths, line 66
\* the schedule with the exponents off by one
kernel_size_schedule_shifted(kernel_size) ==
    [i \in 1..3 |-> kernel_size \div (2 ^ i)]

kernel_size_schedule(kernel_size) ==
    [i \in 1..3 |-> kernel_size \div (2 ^ (i - 1))]

InceptionBlock(in_ch, out_ch, residual, stride, bottleneck_ch, kernel_size) ==
    LET use_bottleneck == bottleneck_ch > 0
        kernel_size_s == kernel_size_schedule(kernel_size)
        chs == <<bottleneck_ch, out_ch, out_ch, out_ch>>       \* line 67
    IN  [in_channels |-> in_ch, out_channels |-> out_ch,
         bottleneck_channels |-> bottleneck_ch, kernel_size |-> kernel_size,
         stride |-> stride,
         use_bottleneck |-> use_bottleneck,
         bottleneck |-> IF use_bottleneck
                        THEN <<Conv1dSamePadding(in_ch, bottleneck_ch, 1, 1, 1, 1)>>
                        ELSE <<>>,
         conv_layers |-> [i \in 1..3 |->
                            Conv1dSamePadding(chs[i], chs[i + 1], kernel_size_s[i],
                                              stride, 1, 1)],
         batchnorm |-> BatchNorm1d(chs[4]),
         relu |-> ReLU,
         use_residual |-> residual,
         residual |-> IF residual
                      THEN << <<Conv1dSamePadding(in_ch, out_ch, 1, stride, 1, 1),
                                BatchNorm1d(out_ch), ReLU>> >>
                      ELSE <<>>]

\* InceptionBlock.forward, lines 87-95.  applied lists the attributes of self
\* that the call invoked, in order; bott is the tensor handed to conv_layers,
\* main the main path's output before the addition, res the residual branch's
\* output and res_input what that branch was fed.
InceptionBlock_forward(block, input) ==
    LET org_x == input
        x1 == IF block.use_bottleneck
              THEN Layer_forward(block.bottleneck[1], input)
              ELSE Tensor(input)
        t1 == IF block.use_bottleneck THEN <<"bottleneck">> ELSE <<>>
        x2 == IF x1.ok THEN Sequential_forward(block.conv_layers, x1.size) ELSE Raised
        t2 == IF x1.ok THEN t1 \o <<"conv_layers">> ELSE t1
        runs_residual == x2.ok /\ block.use_residual
        r == IF runs_residual THEN Sequential_forward(block.residual[1], org_x) ELSE Raised
        t3 == IF runs_residual THEN t2 \o <<"residual">> ELSE t2
        adds == runs_residual /\ r.ok
        x3 == IF ~x2.ok THEN Raised
              ELSE IF ~block.use_residual THEN x2
              ELSE IF r.ok THEN TensorAdd(x2.size, r.size)
              ELSE Raised
        t4 == IF adds THEN t3 \o <<"add">> ELSE t3
    IN  [input |-> input, out |-> x3, applied |-> t4, bott |-> x1, main |-> x2,
         ran_residual |-> runs_residual, res |-> r,
         res_input |-> IF runs_residual THEN org_x ELSE <<>>]

-----------------------------------------------------------------------------
(* Arguments of InceptionModel.__init__: a scalar, a list, or the string     *)
(* 'default'.                                                               *)

Scalar(v) == [kind |-> "scalar", s |-> v, l |-> <<>>]

List(q) == [kind |-> "list", s |-> 0, l |-> q]

Default == [kind |-> "default", s |-> 0, l |-> <<>>]

\* an argument or local the constructor has not read or bound yet
Unread == [kind |-> "unread", s |-> 0, l |-> <<>>]

Lists(S) == UNION {[1..m -> S] : m \in 0..(MaxBlocks + 1)}

InChannels == {1, 2}
OutChannels == {3, 8}
BottleneckChannels == {0, 4}
KernelSizes == {1, 2, 3, 4, 9, 41}
KernelSizesInLists == {3, 41}
ForwardKernelSizes == {4, 9}
PredClasses == {1, 3}
NumBlocks == (1..MaxBlocks) \cup {DeepBlocks}

ScalarArgs(S) == {Scalar(v) : v \in S}
ListArgs(S) == {List(q) : q \in Lists(S)}

OutChannelArgs == ScalarArgs(OutChannels) \cup ListArgs(OutChannels)
BottleneckArgs == ScalarArgs(BottleneckChannels) \cup ListArgs(BottleneckChannels)
KernelSizeArgs == ScalarArgs(KernelSizes) \cup ListArgs(KernelSizesInLists)
UseResidualArgs == {Default} \cup ScalarArgs(BOOLEAN) \cup ListArgs(BOOLEAN)

-----------------------------------------------------------------------------
(* InceptionModel, lines 8-49. *)

\* _expand_to_blocks without its assertion
expand_to_blocks_unchecked(value, n) ==
    IF value.kind = "list"
    THEN [raised |-> FALSE, value |-> value.l]
    ELSE [raised |-> FALSE, value |-> [j \in 1..n |-> value.s]]

\* _expand_to_blocks whose broadcast is one entry short
expand_to_blocks_short(value, n) ==
    IF value.kind = "list"
    THEN IF Len(value.l) = n
         THEN [raised |-> FALSE, value |-> value.l]
         ELSE [raised |-> TRUE, value |-> <<>>]
    ELSE [raised |-> FALSE, value |-> [j \in 1..(n - 1) |-> value.s]]

\* _expand_to_blocks, lines 14-22: raised is the failed assertion
expand_to_blocks(value, n) ==
    IF value.kind = "list"                     \* isinstance(value, list)
    THEN IF Len(value.l) = n
         THEN [raised |-> FALSE, value |-> value.l]
         ELSE [raised |-> TRUE, value |-> <<>>]
    ELSE [raised |-> FALSE, value |-> [j \in 1..n |-> value.s]]

\* the policy that makes every third block residual starting at the first
default_residuals_from_first(n) == [j \in 1..n |-> (j - 1) % 3 = 0]

\* line 34: [True if i % 3 == 2 else False for i in range(num_blocks)]
default_residuals(n) == [j \in 1..n |-> (j - 1) % 3 = 2]

NoLinear == [built |-> FALSE, in_features |-> 0, out_features |-> 0]

\* nn.Linear(in_features, out_features)
Linear(in_features, out_features) ==
    [built |-> TRUE, in_features |-> in_features, out_features |-> out_features]

\* no InceptionModel: __init__ has not run a line
NoModel ==
    /\ num_blocks = 0 /\ in_channels = 0 /\ num_pred_classes = 0
    /\ given = [out_channels |-> Unread, bottleneck_channels |-> Unread,
                kernel_sizes |-> Unread, use_residuals |-> Unread]
    /\ channels = <<>>
    /\ bottleneck_channels = Unread
    /\ kernel_sizes = Unread
    /\ use_residuals = Unread
    /\ blocks = <<>>
    /\ linear = NoLinear

NoForward == x = Raised /\ passes = <<>>

\* line 30, with the caller's num_blocks, in_channels, num_pred_classes and
\* out_channels
Line30(Args) ==
    /\ pc = "line30"
    /\ \E n \in NumBlocks, ic \in InChannels, npc \in PredClasses, oc \in Args :
          LET e == expand_to_blocks(oc, n)
          IN  /\ num_blocks' = n
              /\ in_channels' = ic
              /\ num_pred_classes' = npc
              /\ given' = [given EXCEPT !.out_channels = oc]
              /\ channels' = IF e.raised THEN channels ELSE <<ic>> \o e.value
              /\ pc' = IF e.raised THEN "AssertionError" ELSE "line31"
    /\ UNCHANGED <<bottleneck_channels, kernel_sizes, use_residuals, blocks, linear,
                   x, passes, call>>

\* line 31, with the caller's bottleneck_channels
Line31(Args) ==
    /\ pc = "line31"
    /\ \E bc \in Args :
          LET e == expand_to_blocks(bc, num_blocks)
          IN  /\ given' = [given EXCEPT !.bottleneck_channels = bc]
              /\ bottleneck_channels' = IF e.raised THEN bc ELSE List(e.value)
              /\ pc' = IF e.raised THEN "AssertionError" ELSE "line32"
    /\ UNCHANGED <<num_blocks, in_channels, num_pred_classes, channels, kernel_sizes,
                   use_residuals, blocks, linear, x, passes, call>>

\* line 32, with the caller's kernel_sizes
Line32(Args) ==
    /\ pc = "line32"
    /\ \E ks \in Args :
          LET e == expand_to_blocks(ks, num_blocks)
          IN  /\ given' = [given EXCEPT !.kernel_sizes = ks]
              /\ kernel_sizes' = IF e.raised THEN ks ELSE List(e.value)
              /\ pc' = IF e.raised THEN "AssertionError" ELSE "line33"
    /\ UNCHANGED <<num_blocks, in_channels, num_pred_classes, channels,
                   bottleneck_channels, use_residuals, blocks, linear, x, passes, call>>

\* lines 33-34, with the caller's use_residuals
Line33(Args) ==
    /\ pc = "line33"
    /\ \E ur \in Args :
          /\ given' = [given EXCEPT !.use_residuals = ur]
          /\ use_residuals' = IF ur.kind = "default"     \* use_residuals == 'default'
                              THEN List(default_residuals(num_blocks))
                              ELSE ur
    /\ pc' = "line35"
    /\ UNCHANGED <<num_blocks, in_channels, num_pred_classes, channels,
                   bottleneck_channels, kernel_sizes, blocks, linear, x, passes, call>>

\* line 35
Line35 ==
    /\ pc = "line35"
    /\ LET e == expand_to_blocks(use_residuals, num_blocks)
       IN  /\ use_residuals' = IF e.raised THEN use_residuals ELSE List(e.value)
           /\ pc' = IF e.raised THEN "AssertionError" ELSE "line37"
    /\ UNCHANGED <<num_blocks, in_channels, num_pred_classes, given, channels,
                   bottleneck_channels, kernel_sizes, blocks, linear, x, passes, call>>

\* lines 37-41: self.blocks
Line37 ==
    /\ pc = "line37"
    /\ blocks' = [i \in 1..num_blocks |->
                    InceptionBlock(channels[i], channels[i + 1], use_residuals.l[i], 1,
                                   bottleneck_channels.l[i], kernel_sizes.l[i])]
    /\ pc' = "line45"
    /\ UNCHANGED <<num_blocks, in_channels, num_pred_classes, given, channels,
                   bottleneck_channels, kernel_sizes, use_residuals, linear,
                   x, passes, call>>

\* line 45: self.linear
Line45 ==
    /\ pc = "line45"
    /\ linear' = Linear(channels[Len(channels)], num_pred_classes)
    /\ pc' = "constructed"
    /\ UNCHANGED <<num_blocks, in_channels, num_pred_classes, given, channels,
                   bottleneck_channels, kernel_sizes, use_residuals, blocks,
                   x, passes, call>>

Init == pc = "line30" /\ NoModel /\ NoForward /\ call = NoCall

NextInit ==
    \/ Line30(OutChannelArgs)
    \/ Line31(BottleneckArgs)
    \/ Line32(KernelSizeArgs)
    \/ Line33(UseResidualArgs)
    \/ Line35
    \/ Line37
    \/ Line45

\* InceptionModel.__init__ on scalar and list arguments
SpecInit == Init /\ [][NextInit]_vars

-----------------------------------------------------------------------------
(* InceptionModel.forward, lines 47-49. *)

\* forward(x) is called on a constructed model
Forward_call ==
    /\ pc = "constructed"
    /\ \E b \in 1..MaxBatch, len \in 1..MaxLength :
          x' = Tensor(<<b, in_channels, len>>)
    /\ passes' = <<>>
    /\ pc' = "line48"
    /\ UNCHANGED <<num_blocks, in_channels, num_pred_classes, given, channels,
                   bottleneck_channels, kernel_sizes, use_residuals, blocks, linear,
                   call>>

\* self.blocks(x): the next InceptionBlock of the nn.Sequential runs
Forward_block ==
    /\ pc = "line48"
    /\ Len(passes) < num_blocks
    /\ LET p == InceptionBlock_forward(blocks[Len(passes) + 1], x.size)
       IN  /\ passes' = Append(passes, p)
           /\ x' = p.out
           /\ pc' = IF p.out.ok THEN "line48" ELSE "RuntimeError"
    /\ UNCHANGED <<num_blocks, in_channels, num_pred_classes, given, channels,
                   bottleneck_channels, kernel_sizes, use_residuals, blocks, linear,
                   call>>

\* .mean(dim=-1) and self.linear(x)
Forward_return ==
    /\ pc = "line48"
    /\ Len(passes) = num_blocks
    /\ LET pooled == <<x.size[1], x.size[2]>>
           fits == pooled[2] = linear.in_features
       IN  /\ x' = IF fits THEN Tensor(<<pooled[1], linear.out_features>>) ELSE Raised
           /\ pc' = IF fits THEN "returned" ELSE "RuntimeError"
    /\ UNCHANGED <<num_blocks, in_channels, num_pred_classes, given, channels,
                   bottleneck_channels, kernel_sizes, use_residuals, blocks, linear,
                   passes, call>>

Next ==
    \/ Line30(ScalarArgs(OutChannels))
    \/ Line31(ScalarArgs(BottleneckChannels))
    \/ Line32(ScalarArgs(ForwardKernelSizes))
    \/ Line33({Default} \cup ScalarArgs(BOOLEAN))
    \/ Line35
    \/ Line37
    \/ Line45
    \/ Forward_call
    \/ Forward_block
    \/ Forward_return

\* a model built from scalar arguments with kernel sizes of at least 4 (so that
\* every kernel it builds has an element), then one forward pass
Spec == Init /\ [][Next]_vars

-----------------------------------------------------------------------------
(* One call of a free-standing Conv1dSamePadding layer. *)

Calls ==
    {[input |-> <<b, c, len>>,
      layer |-> Conv1dSamePadding(c, oc, k, s, d, g),
      done |-> FALSE, result |-> NoResult] :
        b \in 1..MaxBatch, c \in 1..MaxChannels, len \in 1..MaxLength,
        oc \in 1..MaxChannels, k \in 1..MaxKernel, s \in 1..MaxStride,
        d \in 1..MaxDilation, g \in 1..MaxGroups}

InitConv ==
    /\ pc = "call"
    /\ NoModel
    /\ NoForward
    /\ call \in {c \in Calls : /\ c.layer.in_channels % c.layer.groups = 0
                               /\ c.layer.out_channels % c.layer.groups = 0}

Call_forward ==
    /\ pc = "call"
    /\ call' = [call EXCEPT !.done = TRUE,
                            !.result = Conv1dSamePadding_forward(call.layer, call.input)]
    /\ pc' = "called"
    /\ UNCHANGED <<num_blocks, in_channels, num_pred_classes, given, channels,
                   bottleneck_channels, kernel_sizes, use_residuals, blocks, linear,
                   x, passes>>

NextConv == Call_forward

SpecConv == InitConv /\ [][NextConv]_vars

-----------------------------------------------------------------------------
(* Properties. *)

\* C1: every Conv1dSamePadding.forward call returns a tensor whose length is
\* ceil(input length / stride), whatever the kernel length, stride, dilation
\* and channel count.
C1_SameOutputLength ==
    call.done =>
        /\ call.result.out.ok
        /\ call.result.out.size[3] = CeilDiv(call.input[3], call.layer.stride)

\* the attributes InceptionBlock.forward is to invoke on a block, in order
ExpectedOrder(block) ==
    (IF block.use_bottleneck THEN <<"bottleneck">> ELSE <<>>)
    \o <<"conv_layers", "batchnorm", "relu">>
    \o (IF block.use_residual THEN <<"residual", "add">> ELSE <<>>)

\* C2: every InceptionBlock.forward call that returns has run the bottleneck
\* (if present), the three convolutions, batch normalization and the activation
\* in this order, and then, when residual is enabled, the residual branch on
\* the block's original input and the addition.
C2_ForwardOrder ==
    \A i \in 1..Len(passes) :
        passes[i].out.ok =>
            /\ passes[i].applied = ExpectedOrder(blocks[i])
            /\ blocks[i].use_residual => passes[i].res_input = passes[i].input

\* C3: a block built with bottleneck_channels = 0 has no bottleneck and its
\* first convolution consumes the block's in_channels; with
\* bottleneck_channels > 0 its first convolution consumes bottleneck_channels.
C3_FirstConvInput ==
    \A i \in 1..Len(blocks) :
        LET b == blocks[i]
        IN  IF b.bottleneck_channels = 0
            THEN /\ Len(b.bottleneck) = 0
                 /\ b.conv_layers[1].in_channels = b.in_channels
            ELSE /\ Len(b.bottleneck) = 1
                 /\ b.conv_layers[1].in_channels = b.bottleneck_channels

\* a list argument whose length differs from num_blocks
BadList(a) == a.kind = "list" /\ Len(a.l) # num_blocks

\* C4: once the constructor has been handed a list of the wrong length for
\* out_channels, bottleneck_channels, kernel_sizes or use_residuals, it ends in
\* the assertion error (the only state before that is the one between reading
\* use_residuals and expanding it), and no block and no linear layer is built.
C4_BadListFails ==
    /\ (BadList(given.out_channels) \/ BadList(given.bottleneck_channels)
            \/ BadList(given.kernel_sizes))
        => pc = "AssertionError"
    /\ BadList(given.use_residuals) => pc \in {"line35", "AssertionError"}
    /\ pc = "AssertionError" => Len(blocks) = 0 /\ ~linear.built
    /\ pc = "constructed" =>
          /\ ~BadList(given.out_channels) /\ ~BadList(given.bottleneck_channels)
          /\ ~BadList(given.kernel_sizes) /\ ~BadList(given.use_residuals)

C4_Witness ==
    /\ pc = "AssertionError"
    /\ BadList(given.kernel_sizes)
    /\ given.out_channels.kind = "list"
    /\ Len(blocks) = 0

\* the per-block list derived from argument a is what the broadcast rule says
Broadcast(a, derived) ==
    /\ derived.kind = "list"
    /\ Len(derived.l) = num_blocks
    /\ a.kind = "scalar" => \A j \in 1..num_blocks : derived.l[j] = a.s
    /\ a.kind = "list" => derived.l = a.l

\* C6: past its expansion, each per-block list has num_blocks entries, all
\* equal to the scalar given, or is the list given; channels is in_channels
\* followed by the expanded out_channels, num_blocks + 1 entries in all.
C6_Broadcast ==
    /\ pc \in {"line31", "line32", "line33", "line35", "line37", "line45", "constructed"}
        => /\ Len(channels) = num_blocks + 1
           /\ channels[1] = in_channels
           /\ Broadcast(given.out_channels, List(Tail(channels)))
    /\ pc \in {"line32", "line33", "line35", "line37", "line45", "constructed"}
        => Broadcast(given.bottleneck_channels, bottleneck_channels)
    /\ pc \in {"line33", "line35", "line37", "line45", "constructed"}
        => Broadcast(given.kernel_sizes, kernel_sizes)
    /\ pc \in {"line37", "line45", "constructed"}
        => Broadcast(given.use_residuals, use_residuals)

C6_Witness ==
    /\ pc = "constructed"
    /\ num_blocks = DeepBlocks
    /\ given.out_channels = Scalar(8)
    /\ given.bottleneck_channels = Scalar(4)
    /\ given.kernel_sizes = Scalar(9)
    /\ given.use_residuals.kind = "scalar"
    /\ Len(blocks) = DeepBlocks

\* C7: with use_residuals = 'default' the local use_residuals is the list
\* "entry i is True iff i % 3 = 2" (i counted from 0) already before the
\* expansion of line 35, and block i is built residual iff i % 3 = 2; a bool or
\* a list given by the caller decides the blocks' residual flags instead.
C7_DefaultResiduals ==
    /\ (given.use_residuals.kind = "default" /\ pc # "line33")
        => /\ pc \in {"line35", "line37", "line45", "constructed"}
           /\ use_residuals.kind = "list"
           /\ Len(use_residuals.l) = num_blocks
           /\ \A j \in 1..num_blocks : use_residuals.l[j] <=> ((j - 1) % 3 = 2)
    /\ \A j \in 1..Len(blocks) :
          /\ given.use_residuals.kind = "default"
                => (blocks[j].use_residual <=> ((j - 1) % 3 = 2))
          /\ given.use_residuals.kind = "scalar"
                => (blocks[j].use_residual <=> given.use_residuals.s)
          /\ given.use_residuals.kind = "list"
                => (blocks[j].use_residual <=> given.use_residuals.l[j])

C7_Witness ==
    /\ pc = "constructed"
    /\ given.use_residuals.kind = "default"
    /\ num_blocks = DeepBlocks
    /\ ~blocks[1].use_residual /\ ~blocks[2].use_residual /\ blocks[3].use_residual
    /\ ~blocks[4].use_residual /\ ~blocks[5].use_residual /\ blocks[6].use_residual

\* C8: the total padding of a call is never negative; the padding at the start
\* of the sequence is total // 2, the padding at the end is total // 2 plus one
\* exactly when the total is odd.
C8_PaddingSplit ==
    call.done =>
        LET r == call.result
            total == r.padding_length
        IN  /\ total >= 0
            /\ r.left = total \div 2
            /\ r.right = total \div 2 + (IF total % 2 = 1 THEN 1 ELSE 0)
            /\ r.left + r.right = total

C8_Witness ==
    /\ call.done
    /\ call.result.padding_length % 2 = 1
    /\ call.result.right = call.result.left + 1

\* C9: in every InceptionBlock.forward call on a residual block, the tensor
\* handed on by the bottleneck has the input's length, the main path and the
\* residual branch both yield [batch, out_channels, input length], and the
\* addition does not raise.
C9_ResidualShapes ==
    \A i \in 1..Len(passes) :
        blocks[i].use_residual =>
            LET p == passes[i]
                same == <<p.input[1], blocks[i].out_channels, p.input[3]>>
            IN  /\ p.bott.ok /\ p.bott.size[3] = p.input[3]
                /\ p.main.ok /\ p.main.size = same
                /\ p.res.ok /\ p.res.size = same
                /\ p.out.ok

\* the kernel lengths of a block's three convolutions
KernelLengths(b) == [i \in 1..3 |-> b.conv_layers[i].kernel_size]

\* the kernel lengths are [k, k//2, k//4]; bottleneck and residual convolution
\* have kernel length 1
KernelSchedule(b) ==
    /\ KernelLengths(b) = <<b.kernel_size, b.kernel_size \div 2, b.kernel_size \div 4>>
    /\ b.use_bottleneck => b.bottleneck[1].kernel_size = 1
    /\ b.use_residual => b.residual[1][1].kernel_size = 1

\* C10 as stated: every block built from a kernel_size k >= 1 has the kernel
\* lengths [k, k//2, k//4], each of them >= 1, and kernel length 1 in the
\* bottleneck and in the residual convolution.
C10_KernelsPositive ==
    \A i \in 1..Len(blocks) :
        blocks[i].kernel_size >= 1 =>
            /\ KernelSchedule(blocks[i])
            /\ \A j \in 1..3 : KernelLengths(blocks[i])[j] >= 1

\* C10, amended: every block built from a kernel_size k >= 1 has the kernel
\* lengths [k, k//2, k//4] and kernel length 1 in the bottleneck and in the
\* residual convolution; the three lengths are all >= 1 exactly when k >= 4.
C10_KernelSchedule ==
    \A i \in 1..Len(blocks) :
        blocks[i].kernel_size >= 1 =>
            /\ KernelSchedule(blocks[i])
            /\ (\A j \in 1..3 : KernelLengths(blocks[i])[j] >= 1)
                  <=> blocks[i].kernel_size >= 4

C10_Witness ==
    /\ Len(blocks) >= 2
    /\ blocks[1].kernel_size = 41
    /\ KernelLengths(blocks[1]) = <<41, 20, 10>>
    /\ blocks[1].use_bottleneck /\ blocks[1].use_residual
    /\ blocks[2].kernel_size = 3
    /\ KernelLengths(blocks[2]) = <<3, 1, 0>>

\* C5: no forward pass of the model raises, and the tensor a forward pass
\* returns has size [batch, num_pred_classes] whatever the input's length.
C5_OutputShape ==
    /\ pc # "RuntimeError"
    /\ pc = "returned" => x = Tensor(<<passes[1].input[1], num_pred_classes>>)

====
